---- MODULE Spec2Model ----
(***************************************************************************)
(* Model of the Slack-bot processor Lambda (handlers/processor/main.py):   *)
(* the expiring secret cache, the Parameter Store resolver built on it,    *)
(* the intent dispatcher, the notifier and the Lambda entry point.         *)
(*                                                                         *)
(* Python values are records [t |-> <type name>, v |-> <payload>]; a dict  *)
(* is a TLA+ function whose DOMAIN is the set of keys present.  A call     *)
(* that can raise yields [kind |-> "return", ...] or [kind |-> "raise",    *)
(* type, msg]; an f-string is the tuple of its literal and interpolated    *)
(* parts, so that what a message is built from stays visible.              *)
(***************************************************************************)
EXTENDS Naturals, Sequences, FiniteSets, TLC

VARIABLES
    cache,      \* _secret_cache._cache: identifier -> [value, expires_at]
    now,        \* the clock read by time.time()
    last,       \* record of the last completed operation (history)
    written,    \* per key: the latest SecretCache.set and whether it was hit since
    failed,     \* identifiers whose most recent get_secret raised
    fetched,    \* identifiers ever passed to ssm_client.get_parameter
    cacheB,     \* the cache of the second run (paired runs)
    pc,         \* per invocation: position inside get_secret / SecretCache
    frame       \* per invocation: its local variables

vars == <<cache, now, last, written, failed, fetched, cacheB, pc, frame>>

(***************************************************************************)
(* Bounds and program constants                                            *)
(***************************************************************************)
MaxTime == 301

ttl_seconds == 300

ENVIRONMENT == "staging"

LOG_LEVEL == "INFO"

\* The instants at which the clock is sampled: around every multiple of the
\* ttl, and the last instant considered.
Instants ==
    {t \in 0..MaxTime : t % ttl_seconds \in {0, 1, ttl_seconds - 1} \/ t = MaxTime}

(***************************************************************************)
(* Python values                                                           *)
(***************************************************************************)
PyNone == [t |-> "NoneType", v |-> "None"]

PyStr(s) == [t |-> "str", v |-> s]

PyInt(s) == [t |-> "int", v |-> s]

PyDict(f) == [t |-> "dict", v |-> f]

PyList(s) == [t |-> "list", v |-> s]

EmptyDict == [k \in {} |-> PyNone]

Return(v) == [kind |-> "return", value |-> v]

Raise(ty, m) == [kind |-> "raise", type |-> ty, msg |-> m]

(***************************************************************************)
(* Utilities: structured logging                                           *)
(***************************************************************************)
levels == [DEBUG |-> 0, INFO |-> 1, WARN |-> 2, ERROR |-> 3]

level_of(l) == IF l \in DOMAIN levels THEN levels[l] ELSE 1

\* The lines log() prints: none when the level is below LOG_LEVEL.
log(level, message) ==
    IF level_of(level) >= level_of(LOG_LEVEL)
    THEN <<[level |-> level, message |-> message]>>
    ELSE <<>>

(***************************************************************************)
(* SecretCache                                                             *)
(***************************************************************************)
\* A plausible slip: a hit renews the entry (sliding expiration).
SecretCache_get_sliding(c, key, t) ==
    IF key \notin DOMAIN c
    THEN [ret |-> PyNone, cache |-> c, log |-> <<>>]
    ELSE LET entry == c[key] IN
         IF entry.expires_at > t
         THEN [ret |-> entry.value,
               cache |-> [c EXCEPT ![key].expires_at = t + ttl_seconds],
               log |-> log("DEBUG", <<"Using cached secret: ", key>>)]
         ELSE [ret |-> PyNone,
               cache |-> [k \in DOMAIN c \ {key} |-> c[k]],
               log |-> <<>>]

\* SecretCache.get, run to completion at clock reading t.
SecretCache_get(c, key, t) ==
    IF key \notin DOMAIN c
    THEN [ret |-> PyNone, cache |-> c, log |-> <<>>]
    ELSE LET entry == c[key] IN
         IF entry.expires_at > t
         THEN [ret |-> entry.value, cache |-> c,
               log |-> log("DEBUG", <<"Using cached secret: ", key>>)]
         ELSE [ret |-> PyNone,
               cache |-> [k \in DOMAIN c \ {key} |-> c[k]],
               log |-> <<>>]

\* SecretCache.set at clock reading t.
SecretCache_set(c, key, value, t) ==
    [k \in DOMAIN c \cup {key} |->
        IF k = key
        THEN [value |-> value, expires_at |-> t + ttl_seconds]
        ELSE c[k]]

(***************************************************************************)
(* The backing store as seen through ssm_client.get_parameter              *)
(***************************************************************************)
ApiKeyPath == "/slack-bot/" \o ENVIRONMENT \o "/api-key"

WebhookUrlPath == "/slack-bot/" \o ENVIRONMENT \o "/webhook-url"

\* The values the store may hold for an identifier (rotation included).
SecretValuesOf(id) ==
    IF id = ApiKeyPath THEN {PyStr("key-A"), PyStr("key-B")}
    ELSE IF id = WebhookUrlPath THEN {PyStr("hook-A"), PyStr("hook-B")}
    ELSE {PyStr("other-A"), PyStr("other-B")}

RawTexts == {"provider-text-1", "provider-text-2"}

Outcome(kind, shape, value, etype, text, elapsed) ==
    [kind |-> kind, shape |-> shape, value |-> value, etype |-> etype,
     text |-> text, elapsed |-> elapsed]

\* What one get_parameter call can do: answer with a response (complete, or
\* lacking 'Parameter' or 'Value'), raise a ClientError (not found, access
\* denied), or raise an error of the client library that is no ClientError
\* (the endpoint cannot be reached).  elapsed is the time the call took.
StoreOutcomes(id, t) ==
    {Outcome("response", "full", v, "", "", d) :
        v \in SecretValuesOf(id), d \in {e \in {0, 1} : t + e \in Instants}}
    \cup {Outcome("response", s, PyNone, "", "", 0) : s \in {"no_parameter", "no_value"}}
    \cup {Outcome("ClientError", c, PyNone, "ClientError", x, 0) :
            c \in {"ParameterNotFound", "AccessDeniedException"}, x \in RawTexts}
    \cup {Outcome("OtherError", "", PyNone, "EndpointConnectionError", x, 0) :
            x \in RawTexts}

(***************************************************************************)
(* Secret Resolver                                                         *)
(***************************************************************************)
Resolved(result, c, ssm, t, lg) ==
    [result |-> result, cache |-> c, ssm |-> ssm, now |-> t, log |-> lg]

\* A plausible slip: the cache is consulted but its answer is not used.
get_secret_always_fetch(c, parameter_name, t, o) ==
    LET g == SecretCache_get(c, parameter_name, t)
        l == g.log \o log("INFO", <<"Fetching secret from Parameter Store: ", parameter_name>>)
    IN  IF o.kind = "response" /\ o.shape = "full"
        THEN Resolved(Return(o.value),
                      SecretCache_set(g.cache, parameter_name, o.value, t + o.elapsed),
                      <<parameter_name>>, t + o.elapsed, l)
        ELSE Resolved(Raise("Exception", <<"Failed to retrieve secret: ", parameter_name>>),
                      g.cache, <<parameter_name>>, t, l)

\* A plausible slip: on failure the evicted entry is put back as a fallback.
get_secret_stale_fallback(c, parameter_name, t, o) ==
    LET g == SecretCache_get(c, parameter_name, t)
        l == g.log \o log("INFO", <<"Fetching secret from Parameter Store: ", parameter_name>>)
    IN  IF g.ret # PyNone
        THEN Resolved(Return(g.ret), g.cache, <<>>, t, g.log)
        ELSE IF o.kind = "response" /\ o.shape = "full"
        THEN Resolved(Return(o.value),
                      SecretCache_set(g.cache, parameter_name, o.value, t + o.elapsed),
                      <<parameter_name>>, t + o.elapsed, l)
        ELSE Resolved(Raise("Exception", <<"Failed to retrieve secret: ", parameter_name>>),
                      c, <<parameter_name>>, t, l)

\* get_secret at clock reading t, the store answering o if it is asked.
get_secret(c, parameter_name, t, o) ==
    LET g == SecretCache_get(c, parameter_name, t)
        l == g.log \o log("INFO", <<"Fetching secret from Parameter Store: ", parameter_name>>)
    IN  IF g.ret # PyNone
        THEN Resolved(Return(g.ret), g.cache, <<>>, t, g.log)
        ELSE IF o.kind = "ClientError"
        THEN Resolved(Raise("Exception", <<"Failed to retrieve secret: ", parameter_name>>),
                      g.cache, <<parameter_name>>, t,
                      l \o log("ERROR", <<"Failed to fetch secret ", parameter_name, ": ", o.text>>))
        ELSE IF o.kind = "OtherError"
        THEN \* not a ClientError: the except clause does not apply
             Resolved(Raise(o.etype, <<o.text>>), g.cache, <<parameter_name>>, t, l)
        ELSE IF o.shape # "full"
        THEN \* raised inside the try, not a ClientError either
             Resolved(Raise("Exception", <<"Parameter ", parameter_name, " not found or empty">>),
                      g.cache, <<parameter_name>>, t, l)
        ELSE Resolved(Return(o.value),
                      SecretCache_set(g.cache, parameter_name, o.value, t + o.elapsed),
                      <<parameter_name>>, t + o.elapsed, l)

get_api_key(c, t, o) == get_secret(c, ApiKeyPath, t, o)

get_webhook_url(c, t, o) == get_secret(c, WebhookUrlPath, t, o)

(***************************************************************************)
(* Initial values shared by the specifications                             *)
(***************************************************************************)
EmptyCache == [k \in {} |-> [value |-> PyNone, expires_at |-> 0]]

CacheKeys == {ApiKeyPath, WebhookUrlPath}

NeverWritten == [set |-> FALSE, at |-> 0, value |-> PyNone, read |-> FALSE]

NoOp == [op |-> "none"]

Procs == {1, 2}

IdleFrame == [key |-> "", entry |-> [value |-> PyNone, expires_at |-> 0], value |-> PyNone]

Init ==
    /\ cache = EmptyCache
    /\ now = 0
    /\ last = NoOp
    /\ written = [k \in CacheKeys |-> NeverWritten]
    /\ failed = {}
    /\ fetched = {}
    /\ cacheB = EmptyCache
    /\ pc = [p \in Procs |-> "idle"]
    /\ frame = [p \in Procs |-> IdleFrame]

\* time.time() advances between operations.
Tick ==
    /\ \E t \in Instants : t > now /\ now' = t
    /\ UNCHANGED <<cache, last, written, failed, fetched, cacheB, pc, frame>>

(***************************************************************************)
(* The cache used directly: SecretCache.set and SecretCache.get            *)
(***************************************************************************)
CacheSet(k, v) ==
    /\ cache' = SecretCache_set(cache, k, v, now)
    /\ written' = [written EXCEPT ![k] =
                      [set |-> TRUE, at |-> now, value |-> v, read |-> FALSE]]
    /\ last' = [op |-> "set", key |-> k, at |-> now, ret |-> PyNone]
    /\ UNCHANGED <<now, failed, fetched, cacheB, pc, frame>>

CacheGet(k) ==
    \E g \in {SecretCache_get(cache, k, now)} :
    /\ cache' = g.cache
    /\ written' = [written EXCEPT ![k].read = @ \/ (g.ret # PyNone)]
    /\ last' = [op |-> "get", key |-> k, at |-> now, ret |-> g.ret]
    /\ UNCHANGED <<now, failed, fetched, cacheB, pc, frame>>

NextCache ==
    \/ \E k \in CacheKeys : \E v \in SecretValuesOf(k) : CacheSet(k, v)
    \/ \E k \in CacheKeys : CacheGet(k)
    \/ Tick

SpecCache == Init /\ [][NextCache]_vars

(***************************************************************************)
(* The resolver called sequentially                                        *)
(***************************************************************************)
GetSecret(id, o) ==
    \E r \in {get_secret(cache, id, now, o)} :
    /\ cache' = r.cache
    /\ now' = r.now
    /\ fetched' = fetched \cup {r.ssm[i] : i \in 1..Len(r.ssm)}
    /\ failed' = IF r.result.kind = "raise" THEN failed \cup {id} ELSE failed \ {id}
    /\ last' = [op |-> "get_secret", id |-> id, at |-> now, pre |-> cache,
                outcome |-> o, result |-> r.result, ssm |-> r.ssm,
                prevFailed |-> id \in failed]
    /\ UNCHANGED <<written, cacheB, pc, frame>>

NextResolver ==
    \/ \E id \in CacheKeys : \E o \in StoreOutcomes(id, now) : GetSecret(id, o)
    \/ Tick

SpecResolver == Init /\ [][NextResolver]_vars

(***************************************************************************)
(* Claims about the cache                                                  *)
(***************************************************************************)
\* C2: after set(k, v) at instant t, a get(k) strictly before t + ttl returns
\* v, and a get(k) at or after t + ttl returns absent and leaves no entry for
\* k, however many hits came in between; a key never set reads as absent.
C2_GetHonoursExpiry ==
    last.op = "get" =>
        LET w == written[last.key] IN
        IF w.set /\ last.at < w.at + ttl_seconds
        THEN last.ret = w.value
        ELSE last.ret = PyNone /\ last.key \notin DOMAIN cache

\* A get exactly at t + ttl, after an earlier hit, finds the entry gone.
C2_Witness ==
    /\ last.op = "get"
    /\ written[last.key].set
    /\ written[last.key].read
    /\ last.at = written[last.key].at + ttl_seconds
    /\ last.ret = PyNone
    /\ last.key \notin DOMAIN cache

(***************************************************************************)
(* Claims about the resolver                                               *)
(***************************************************************************)
\* The cache c holds an entry for k that has not expired at instant t.
Unexpired(c, k, t) == k \in DOMAIN c /\ c[k].expires_at > t

\* The store answered the call with a parameter value.
Answered(o) == o.kind = "response" /\ o.shape = "full"

\* C1: a get_secret call makes no remote fetch and returns the cached value
\* when the cache holds an unexpired entry for the identifier; otherwise it
\* makes exactly one remote fetch, for that identifier, and when the store
\* answers it returns the value fetched.
C1_FetchOnlyOnMiss ==
    last.op = "get_secret" =>
        IF Unexpired(last.pre, last.id, last.at)
        THEN last.ssm = <<>> /\ last.result = Return(last.pre[last.id].value)
        ELSE /\ last.ssm = <<last.id>>
             /\ Answered(last.outcome) => last.result = Return(last.outcome.value)

\* A call served from an entry cached at an earlier instant, without a fetch.
C1_Witness ==
    /\ last.op = "get_secret"
    /\ Unexpired(last.pre, last.id, last.at)
    /\ last.at + ttl_seconds > last.pre[last.id].expires_at
    /\ last.ssm = <<>>
    /\ last.result.kind = "return"

\* The store did not deliver a value: the identifier is missing, the answer
\* carries no value, access is denied, or the store could not be reached.
StoreFailed(o) ==
    \/ o.kind \in {"ClientError", "OtherError"}
    \/ o.shape # "full"

\* C3: whenever the store reports the identifier missing, empty or denied,
\* or signals any other failure, get_secret returns no value and raises its
\* one failure type (the plain Exception it constructs itself).
C3_SingleFailureType ==
    (last.op = "get_secret" /\ last.ssm # <<>> /\ StoreFailed(last.outcome)) =>
        (last.result.kind = "raise" /\ last.result.type = "Exception")

\* C10: when get_secret raises, the cache holds no entry for that identifier
\* afterwards, the entries of the other identifiers are as they were, and
\* the next get_secret for the identifier fetches from the store again.
C10_FailureCachesNothing ==
    last.op = "get_secret" =>
        /\ last.result.kind = "raise" =>
              /\ last.id \notin DOMAIN cache
              /\ DOMAIN cache = DOMAIN last.pre \ {last.id}
              /\ \A k \in DOMAIN cache : cache[k] = last.pre[k]
        /\ last.prevFailed => last.ssm = <<last.id>>

\* A failing call that found an expired entry and left another key's entry.
C10_Witness ==
    /\ last.op = "get_secret"
    /\ last.result.kind = "raise"
    /\ last.id \in DOMAIN last.pre
    /\ last.id \notin DOMAIN cache
    /\ DOMAIN cache # {}

(***************************************************************************)
(* Two runs that differ only in secret values and provider error text      *)
(***************************************************************************)
SameButSecrets(oA, oB) ==
    /\ oA.kind = oB.kind
    /\ oA.shape = oB.shape
    /\ oA.etype = oB.etype
    /\ oA.elapsed = oB.elapsed

GetSecretPair(id, oA, oB) ==
    /\ SameButSecrets(oA, oB)
    /\ \E rA \in {get_secret(cache, id, now, oA)} :
       \E rB \in {get_secret(cacheB, id, now, oB)} :
          /\ cache' = rA.cache
          /\ cacheB' = rB.cache
          /\ now' = rA.now
          /\ last' = [op |-> "pair", id |-> id, a |-> rA.result, b |-> rB.result]
    /\ UNCHANGED <<written, failed, fetched, pc, frame>>

NextPair ==
    \/ \E id \in CacheKeys :
          \E oA, oB \in StoreOutcomes(id, now) : GetSecretPair(id, oA, oB)
    \/ Tick

SpecPair == Init /\ [][NextPair]_vars

\* C4: when get_secret raises, the error is the same in two runs that differ
\* only in the secret values the store holds and in the provider's error
\* text: its content is determined by the identifier alone.
C4_ErrorIndependentOfSecrets ==
    (last.op = "pair" /\ (last.a.kind = "raise" \/ last.b.kind = "raise")) =>
        last.a = last.b

(***************************************************************************)
(* Python helpers used by the dispatcher, the notifier and the entry point *)
(***************************************************************************)
\* dict.get(key, default) on the payload of a dict.
dict_get(d, key, default) == IF key \in DOMAIN d THEN d[key] ELSE default

\* str(x) as an f-string interpolates it.
str(x) == IF x.t = "dict" THEN "{...}" ELSE x.v

\* bool(x): None, "", 0, [] and {} are falsy.
truthy(x) ==
    CASE x.t = "NoneType" -> FALSE
      [] x.t = "str" -> x.v # ""
      [] x.t = "int" -> x.v # "0"
      [] x.t = "list" -> x.v # "[]"
      [] x.t = "dict" -> DOMAIN x.v # {}
      [] OTHER -> TRUE

LongCallback == "https://hooks.slack.com/services/T000/B000"

\* s[:20] for the strings that occur: the one longer than 20 is cut.
slice20(s) == IF s = LongCallback THEN "https://hooks.slack." ELSE s

\* datetime.utcnow().isoformat() at clock reading t.
isoformat(t) == ToString(t)

\* json.dumps: the str that is the JSON text of x (json names what it encodes).
json_dumps(x) == [t |-> "str", v |-> "<json text>", json |-> x]

Absent == [t |-> "absent", v |-> ""]

\* The dict holding the fields of r that are present.
MkDict(r) == PyDict([k \in {f \in DOMAIN r : r[f] # Absent} |-> r[k]])

MkIntent(operation, parameters, callbackUrl) ==
    MkDict([id |-> PyStr("intent-1"), operation |-> operation,
            parameters |-> parameters, callbackUrl |-> callbackUrl])

\* json.loads on the texts that occur; any other text is not JSON.
json_loads(s) ==
    CASE s = "{\"id\": \"intent-1\", \"operation\": \"cost-report\"}" ->
            Return(MkIntent(PyStr("cost-report"), Absent, Absent))
      [] s = "{\"id\": \"intent-1\", \"operation\": \"user-stats\", \"callbackUrl\": 123}" ->
            Return(MkIntent(PyStr("user-stats"), Absent, PyInt("123")))
      [] s = "[1, 2]" -> Return(PyList("[1, 2]"))
      [] s = "null" -> Return(PyNone)
      [] OTHER -> Raise("JSONDecodeError", <<"Expecting value: line 1 column 1 (char 0)">>)

(***************************************************************************)
(* Data processing                                                         *)
(***************************************************************************)
\* A plausible slip: the secret path is taken from the request parameters.
generate_cost_report_request_path(parameters, c, t, o) ==
    LET path == IF parameters.t = "dict"
                THEN str(dict_get(parameters.v, "period", PyStr(ApiKeyPath)))
                ELSE ApiKeyPath
        r == get_secret(c, path, t, o)
    IN  IF r.result.kind = "raise"
        THEN Resolved(Return([status |-> "error",
                              message |-> <<"Failed to retrieve API credentials">>]),
                      r.cache, r.ssm, r.now, r.log)
        ELSE Resolved(Return([status |-> "success", generated_at |-> isoformat(r.now)]),
                      r.cache, r.ssm, r.now, r.log)

\* A plausible slip: the retrieval failure is not caught locally.
generate_cost_report_uncaught(parameters, c, t, o) ==
    LET r == get_api_key(c, t, o)
    IN  IF r.result.kind = "raise"
        THEN r
        ELSE Resolved(Return([status |-> "success", generated_at |-> isoformat(r.now)]),
                      r.cache, r.ssm, r.now, r.log)

generate_cost_report(parameters, c, t, o) ==
    LET l0 == log("INFO", <<"Generating cost report">>)
        r == get_api_key(c, t, o)
    IN  IF r.result.kind = "raise"
        THEN \* except Exception: every error get_api_key raises is one
             Resolved(Return([status |-> "error",
                              message |-> <<"Failed to retrieve API credentials">>]),
                      r.cache, r.ssm, r.now,
                      l0 \o r.log \o log("ERROR", <<"Failed to retrieve API key: ">> \o r.result.msg))
        ELSE LET l1 == l0 \o r.log \o log("INFO", <<"API key retrieved successfully">>)
             IN  IF parameters.t # "dict"
                 THEN Resolved(Raise("AttributeError", <<"object has no attribute 'get'">>),
                               r.cache, r.ssm, r.now, l1)
                 ELSE Resolved(
                        Return([status |-> "success",
                                report |-> [period |-> dict_get(parameters.v, "period",
                                                                PyStr("last_30_days")),
                                            total_cost |-> "1234.56",
                                            breakdown |-> [compute |-> "800.00",
                                                           storage |-> "234.56",
                                                           network |-> "200.00"]],
                                generated_at |-> isoformat(r.now)]),
                        r.cache, r.ssm, r.now, l1)

audit_infrastructure(parameters, c, t) ==
    Resolved(Return([status |-> "success",
                     audit |-> [checks_passed |-> "42", checks_failed |-> "3",
                                warnings |-> "7",
                                findings |-> <<"S3 bucket public access detected",
                                               "Unused security groups found",
                                               "EC2 instances without tags">>],
                     audited_at |-> isoformat(t)]),
             c, <<>>, t, log("INFO", <<"Auditing infrastructure">>))

analyze_user_stats(parameters, c, t) ==
    Resolved(Return([status |-> "success",
                     stats |-> [active_users |-> "156", commands_executed |-> "2341",
                                most_used_command |-> "cost-report"],
                     analyzed_at |-> isoformat(t)]),
             c, <<>>, t, log("INFO", <<"Analyzing user statistics">>))

WithLog(l, r) == [r EXCEPT !.log = l \o @]

process_data(intent, c, t, o) ==
    IF intent.t # "dict"
    THEN Resolved(Raise("AttributeError", <<"object has no attribute 'get'">>), c, <<>>, t, <<>>)
    ELSE LET operation == dict_get(intent.v, "operation", PyStr("unknown"))
             parameters == dict_get(intent.v, "parameters", PyDict(EmptyDict))
             l == log("INFO", <<"Processing operation: ", str(operation)>>)
         IN  IF operation = PyStr("cost-report")
             THEN WithLog(l, generate_cost_report(parameters, c, t, o))
             ELSE IF operation = PyStr("infra-audit")
             THEN WithLog(l, audit_infrastructure(parameters, c, t))
             ELSE IF operation = PyStr("user-stats")
             THEN WithLog(l, analyze_user_stats(parameters, c, t))
             ELSE Resolved(Return([status |-> "unknown_operation",
                                   message |-> <<"Unknown operation: ", str(operation)>>]),
                           c, <<>>, t, l)

(***************************************************************************)
(* Notification                                                            *)
(***************************************************************************)
Notified(result, attempts, lg) == [result |-> result, attempts |-> attempts, log |-> lg]

\* A plausible slip: the delivery is not wrapped in try/except.
send_notification_unguarded(result, callback_url) ==
    IF ~truthy(callback_url)
    THEN Notified(Return(PyNone), 0,
                  log("INFO", <<"No callback URL provided, skipping notification">>))
    ELSE IF callback_url.t \in {"str", "list"}
    THEN Notified(Return(PyNone), 1,
                  log("INFO", <<"Notification sent to ", slice20(callback_url.v), "...">>))
    ELSE Notified(Raise("TypeError", <<"object is not subscriptable">>), 1, <<>>)

\* send_notification: attempts counts the entries into the delivery block.
send_notification(result, callback_url) ==
    IF ~truthy(callback_url)
    THEN Notified(Return(PyNone), 0,
                  log("INFO", <<"No callback URL provided, skipping notification">>))
    ELSE IF callback_url.t \in {"str", "list"}
    THEN Notified(Return(PyNone), 1,
                  log("INFO", <<"Notification sent to ", slice20(callback_url.v), "...">>))
    ELSE \* callback_url[:20] raises TypeError, caught by except Exception
         Notified(Return(PyNone), 1,
                  log("ERROR", <<"Failed to send notification: ",
                                 "object is not subscriptable">>))

(***************************************************************************)
(* Lambda handler                                                          *)
(***************************************************************************)
\* What one run of the handler leaves behind: what it gave its caller, the
\* cache, the store calls, the clock, the log lines, process_data's result
\* (when reached), the delivery attempts and the stage that raised.
Handled(outcome, c, ssm, t, lg, pd, attempts, raisedAt) ==
    [outcome |-> outcome, cache |-> c, ssm |-> ssm, now |-> t, log |-> lg,
     pd |-> pd, attempts |-> attempts, raisedAt |-> raisedAt]

NotReached == [kind |-> "not reached"]

InternalError ==
    [statusCode |-> 500,
     body |-> json_dumps([status |-> "error", message |-> <<"Internal processing error">>])]

\* The except clause of handler: log the error, answer 500.
handler_except(e, c, ssm, t, lg, pd, attempts, raisedAt) ==
    Handled(Return(InternalError), c, ssm, t,
            lg \o log("ERROR", <<"Handler error: ">> \o e.msg), pd, attempts, raisedAt)

\* The try block of handler after the event was parsed into intent.
handler_dispatch(intent, c, t, o, l0) ==
    IF intent.t # "dict"
    THEN handler_except(Raise("AttributeError", <<"object has no attribute 'get'">>),
                        c, <<>>, t, l0, NotReached, 0, "intent")
    ELSE LET l1 == l0 \o log("INFO", <<"Processing intent: ",
                                      str(dict_get(intent.v, "id", PyStr("unknown")))>>)
             pd == process_data(intent, c, t, o)
         IN  IF pd.result.kind = "raise"
             THEN handler_except(pd.result, pd.cache, pd.ssm, pd.now, l1 \o pd.log,
                                 pd.result, 0, "dispatch")
             ELSE LET callback_url == dict_get(intent.v, "callbackUrl", PyNone)
                      n == send_notification(pd.result.value, callback_url)
                      l2 == l1 \o pd.log \o n.log
                  IN  IF n.result.kind = "raise"
                      THEN handler_except(n.result, pd.cache, pd.ssm, pd.now, l2,
                                          pd.result, n.attempts, "notify")
                      ELSE Handled(Return([statusCode |-> 200,
                                           body |-> json_dumps(pd.result.value)]),
                                   pd.cache, pd.ssm, pd.now,
                                   l2 \o log("INFO", <<"Processing completed successfully">>),
                                   pd.result, n.attempts, "none")

\* A plausible slip: the event is parsed before the try block is entered.
handler_parse_outside_try(event, c, t, o) ==
    LET l0 == log("INFO", <<"Processor handler invoked">>)
        parsed == IF event.t = "str" THEN json_loads(event.v) ELSE Return(event)
    IN  IF parsed.kind = "raise"
        THEN Handled(parsed, c, <<>>, t, l0, NotReached, 0, "parse")
        ELSE handler_dispatch(parsed.value, c, t, o, l0)

handler(event, c, t, o) ==
    LET l0 == log("INFO", <<"Processor handler invoked">>)
        parsed == IF event.t = "str" THEN json_loads(event.v) ELSE Return(event)
    IN  IF parsed.kind = "raise"
        THEN handler_except(parsed, c, <<>>, t, l0, NotReached, 0, "parse")
        ELSE handler_dispatch(parsed.value, c, t, o, l0)

(***************************************************************************)
(* Sequential handler invocations                                          *)
(***************************************************************************)
OtherPath == "/slack-bot/" \o ENVIRONMENT \o "/admin-token"

Operations ==
    {Absent, PyStr("cost-report"), PyStr("infra-audit"), PyStr("user-stats"),
     PyStr("frobnicate")}

Parameters ==
    {Absent, PyDict(EmptyDict), PyDict([period |-> PyStr("last_7_days")]),
     PyDict([period |-> PyStr(OtherPath)]), PyStr("last_7_days")}

Callbacks == {PyStr(""), PyStr(LongCallback), PyInt("123"), PyStr(OtherPath)}

\* The events: mappings (every operation and parameters without callback,
\* every callback with some of them), JSON texts, and values that are neither.
Events ==
    {MkIntent(op, ps, Absent) : op \in Operations, ps \in Parameters}
    \cup {MkIntent(op, ps, cb) :
            op \in {PyStr("cost-report"), PyStr("frobnicate")},
            ps \in {Absent, PyStr("last_7_days")}, cb \in Callbacks}
    \cup {PyStr("{\"id\": \"intent-1\", \"operation\": \"cost-report\"}"),
          PyStr("{\"id\": \"intent-1\", \"operation\": \"user-stats\", \"callbackUrl\": 123}"),
          PyStr("[1, 2]"), PyStr("null"), PyStr("not json"), PyStr("")}
    \cup {PyNone, PyList("[1, 2]"), PyInt("7")}

\* The store's answers a handler run is tried against.
HandlerOutcomes ==
    {Outcome("response", "full", v, "", "", 0) : v \in SecretValuesOf(ApiKeyPath)}
    \cup {Outcome("response", "no_parameter", PyNone, "", "", 0),
          Outcome("ClientError", "AccessDeniedException", PyNone, "ClientError",
                  "provider-text-1", 0),
          Outcome("OtherError", "", PyNone, "EndpointConnectionError",
                  "provider-text-2", 0)}

\* The store gives an answer only when it is asked.
NotAsked == Outcome("not asked", "", PyNone, "", "", 0)

Handler(event, o) ==
    \E r \in {handler(event, cache, now, o)} :
    /\ (o = NotAsked) = (r.ssm = <<>>)
    /\ cache' = r.cache
    /\ now' = r.now
    /\ fetched' = fetched \cup {r.ssm[i] : i \in 1..Len(r.ssm)}
    /\ last' = [op |-> "handler", event |-> event, at |-> now, pre |-> cache,
                outcome |-> o, result |-> r.outcome, ssm |-> r.ssm, log |-> r.log,
                pd |-> r.pd, attempts |-> r.attempts, raisedAt |-> r.raisedAt]
    /\ UNCHANGED <<written, failed, cacheB, pc, frame>>

NextHandler ==
    \/ \E event \in Events :
          IF handler(event, cache, now, NotAsked).ssm = <<>>
          THEN Handler(event, NotAsked)
          ELSE \E o \in HandlerOutcomes : Handler(event, o)
    \/ Tick

SpecHandler == Init /\ [][NextHandler]_vars

(***************************************************************************)
(* Claims about the entry point, the dispatcher and the notifier           *)
(***************************************************************************)
\* The event is no mapping and no JSON text of one.
Malformed(event) ==
    \/ event.t \notin {"dict", "str"}
    \/ /\ event.t = "str"
       /\ \/ json_loads(event.v).kind = "raise"
          \/ json_loads(event.v).value.t # "dict"

\* The intent a well-formed event carries.
IntentOf(event) == IF event.t = "str" THEN json_loads(event.v).value ELSE event

\* C5: handler always returns to its caller; it answers 500 with the fixed
\* generic body exactly when parsing, dispatch or notification raised (so for
\* every malformed event), and otherwise 200 with the JSON text of the
\* envelope process_data returned.
C5_HandlerNeverRaises ==
    last.op = "handler" =>
        /\ last.result.kind = "return"
        /\ (last.result.value.statusCode = 500) = (last.raisedAt # "none")
        /\ IF last.raisedAt # "none"
           THEN last.result.value = InternalError
           ELSE last.result.value =
                    [statusCode |-> 200, body |-> json_dumps(last.pd.value)]
        /\ (Malformed(last.event) \/ last.pd.kind = "raise") =>
              last.result.value.statusCode = 500

\* An unparseable text was answered with the generic 500 response.
C5_Witness ==
    /\ last.op = "handler"
    /\ last.event = PyStr("not json")
    /\ last.raisedAt = "parse"
    /\ last.result = Return(InternalError)

KnownOperations == {PyStr("cost-report"), PyStr("infra-audit"), PyStr("user-stats")}

\* C6: for an intent that is a mapping whose parameters are a mapping (or are
\* left out), process_data returns an envelope and does not raise; an
\* operation outside the known three, or none, yields the unknown_operation
\* envelope naming it; a failed secret retrieval under cost-report yields an
\* envelope with status "error".
C6_DispatchNeverRaises ==
    (/\ last.op = "handler"
     /\ last.pd # NotReached
     /\ dict_get(IntentOf(last.event).v, "parameters", PyDict(EmptyDict)).t = "dict") =>
        LET operation == dict_get(IntentOf(last.event).v, "operation", PyStr("unknown"))
        IN  /\ last.pd.kind = "return"
            /\ operation \notin KnownOperations =>
                  last.pd.value = [status |-> "unknown_operation",
                                   message |-> <<"Unknown operation: ", str(operation)>>]
            /\ (/\ operation = PyStr("cost-report")
                /\ last.ssm # <<>>
                /\ StoreFailed(last.outcome)) =>
                  last.pd.value.status = "error"

\* cost-report met a store that could not be reached: an error envelope.
C6_Witness ==
    /\ last.op = "handler"
    /\ last.pd # NotReached
    /\ last.ssm = <<ApiKeyPath>>
    /\ last.outcome.kind = "OtherError"
    /\ last.pd.kind = "return"
    /\ last.pd.value.status = "error"

\* The intent without its callbackUrl.
StripCallback(intent) ==
    PyDict([k \in DOMAIN intent.v \ {"callbackUrl"} |-> intent.v[k]])

ErrorLogged(lg, text) ==
    \E i \in 1..Len(lg) : lg[i].level = "ERROR" /\ lg[i].message[1] = text

\* C8: the response to an intent is the response to the same intent without
\* callbackUrl, from the same cache, clock and store answer; a callbackUrl
\* that is absent or empty causes no delivery attempt; a delivery that fails
\* is logged and the response is unaffected.
C8_NotificationKeepsResponse ==
    (last.op = "handler" /\ ~Malformed(last.event)) =>
        LET intent == IntentOf(last.event)
            callback_url == dict_get(intent.v, "callbackUrl", PyNone)
        IN  /\ last.result =
                  handler(StripCallback(intent), last.pre, last.at, last.outcome).outcome
            /\ ~truthy(callback_url) => last.attempts = 0
            /\ (/\ truthy(callback_url)
                /\ callback_url.t \notin {"str", "list"}
                /\ last.pd.kind = "return") =>
                  /\ last.attempts = 1
                  /\ ErrorLogged(last.log, "Failed to send notification: ")
                  /\ last.result.kind = "return"
                  /\ last.result.value.statusCode = 200

\* A callbackUrl that is a number: the delivery failed, the answer is 200.
C8_Witness ==
    /\ last.op = "handler"
    /\ ~Malformed(last.event)
    /\ dict_get(IntentOf(last.event).v, "callbackUrl", PyNone) = PyInt("123")
    /\ last.attempts = 1
    /\ ErrorLogged(last.log, "Failed to send notification: ")
    /\ last.result.kind = "return"
    /\ last.result.value.statusCode = 200

FixedIdentifiers ==
    {"/slack-bot/" \o ENVIRONMENT \o "/api-key",
     "/slack-bot/" \o ENVIRONMENT \o "/webhook-url"}

\* C9: every identifier passed to the store and every key of the cache is
\* one of the two fixed paths, whatever the requests contained.
C9_IdentifiersFixed ==
    /\ fetched \subseteq FixedIdentifiers
    /\ DOMAIN cache \subseteq FixedIdentifiers

\* A request naming another path in its parameters fetched the API key only.
C9_Witness ==
    /\ last.op = "handler"
    /\ ~Malformed(last.event)
    /\ dict_get(IntentOf(last.event).v, "parameters", PyNone) =
          PyDict([period |-> PyStr(OtherPath)])
    /\ last.ssm = <<ApiKeyPath>>
    /\ fetched = {ApiKeyPath}
    /\ DOMAIN cache = {ApiKeyPath}

(***************************************************************************)
(* Invocations sharing the process-wide cache, interleaved statement by    *)
(* statement.  The code takes no lock, so each of the membership test, the *)
(* read, the expiry comparison, the delete, the fetch and the write of     *)
(* get_secret / SecretCache is a step of its own.                          *)
(***************************************************************************)
ConcOutcomes(id) ==
    {Outcome("response", "full", v, "", "", 0) : v \in SecretValuesOf(id)}
    \cup {Outcome("ClientError", "ParameterNotFound", PyNone, "ClientError",
                  "provider-text-1", 0)}

Finished(p, id, result, from) ==
    [op |-> "conc", proc |-> p, id |-> id, result |-> result, from |-> from]

\* get_secret(id) is called: SecretCache.get is entered.
Call(p, id) ==
    /\ pc[p] = "idle"
    /\ pc' = [pc EXCEPT ![p] = "member"]
    /\ frame' = [frame EXCEPT ![p] = [IdleFrame EXCEPT !.key = id]]
    /\ UNCHANGED <<cache, now, last, written, failed, fetched, cacheB>>

\* if key not in self._cache: return None
GetMember(p) ==
    /\ pc[p] = "member"
    /\ pc' = [pc EXCEPT ![p] = IF frame[p].key \in DOMAIN cache THEN "read" ELSE "fetch"]
    /\ UNCHANGED <<cache, now, last, written, failed, fetched, cacheB, frame>>

\* entry = self._cache[key]: KeyError when the key has gone meanwhile.
GetRead(p) ==
    /\ pc[p] = "read"
    /\ IF frame[p].key \in DOMAIN cache
       THEN /\ frame' = [frame EXCEPT ![p].entry = cache[frame[p].key]]
            /\ pc' = [pc EXCEPT ![p] = "compare"]
            /\ UNCHANGED last
       ELSE /\ last' = Finished(p, frame[p].key, Raise("KeyError", <<frame[p].key>>),
                                "SecretCache.get")
            /\ pc' = [pc EXCEPT ![p] = "idle"]
            /\ frame' = [frame EXCEPT ![p] = IdleFrame]
    /\ UNCHANGED <<cache, now, written, failed, fetched, cacheB>>

\* if entry['expires_at'] > time.time(): return entry['value']
GetCompare(p) ==
    /\ pc[p] = "compare"
    /\ IF frame[p].entry.expires_at > now
       THEN /\ last' = Finished(p, frame[p].key, Return(frame[p].entry.value), "get_secret")
            /\ pc' = [pc EXCEPT ![p] = "idle"]
            /\ frame' = [frame EXCEPT ![p] = IdleFrame]
       ELSE /\ pc' = [pc EXCEPT ![p] = "delete"]
            /\ UNCHANGED <<last, frame>>
    /\ UNCHANGED <<cache, now, written, failed, fetched, cacheB>>

\* del self._cache[key]: KeyError when the key has gone meanwhile.
GetDelete(p) ==
    /\ pc[p] = "delete"
    /\ IF frame[p].key \in DOMAIN cache
       THEN /\ cache' = [k \in DOMAIN cache \ {frame[p].key} |-> cache[k]]
            /\ pc' = [pc EXCEPT ![p] = "fetch"]
            /\ UNCHANGED <<last, frame>>
       ELSE /\ last' = Finished(p, frame[p].key, Raise("KeyError", <<frame[p].key>>),
                                "SecretCache.get")
            /\ pc' = [pc EXCEPT ![p] = "idle"]
            /\ frame' = [frame EXCEPT ![p] = IdleFrame]
            /\ UNCHANGED cache
    /\ UNCHANGED <<now, written, failed, fetched, cacheB>>

\* ssm_client.get_parameter and the checks on its response.
Fetch(p, o) ==
    /\ pc[p] = "fetch"
    /\ fetched' = fetched \cup {frame[p].key}
    /\ IF Answered(o)
       THEN /\ frame' = [frame EXCEPT ![p].value = o.value]
            /\ pc' = [pc EXCEPT ![p] = "store"]
            /\ UNCHANGED last
       ELSE /\ last' = Finished(p, frame[p].key,
                                Raise("Exception", <<"Failed to retrieve secret: ",
                                                     frame[p].key>>),
                                "get_secret")
            /\ pc' = [pc EXCEPT ![p] = "idle"]
            /\ frame' = [frame EXCEPT ![p] = IdleFrame]
    /\ UNCHANGED <<cache, now, written, failed, cacheB>>

\* _secret_cache.set(parameter_name, value); return value
Store(p) ==
    /\ pc[p] = "store"
    /\ cache' = SecretCache_set(cache, frame[p].key, frame[p].value, now)
    /\ last' = Finished(p, frame[p].key, Return(frame[p].value), "get_secret")
    /\ pc' = [pc EXCEPT ![p] = "idle"]
    /\ frame' = [frame EXCEPT ![p] = IdleFrame]
    /\ UNCHANGED <<now, written, failed, fetched, cacheB>>

NextConc ==
    \/ \E p \in Procs : \E id \in CacheKeys : Call(p, id)
    \/ \E p \in Procs : GetMember(p)
    \/ \E p \in Procs : GetRead(p)
    \/ \E p \in Procs : GetCompare(p)
    \/ \E p \in Procs : GetDelete(p)
    \/ \E p \in Procs : \E o \in ConcOutcomes(frame[p].key) : Fetch(p, o)
    \/ \E p \in Procs : Store(p)
    \/ Tick

SpecConc == Init /\ [][NextConc]_vars

\* C7: with invocations interleaved inside the cache operations,
\* SecretCache.get never raises, and every entry of the cache is a complete
\* (value, expiry) pair whose value the store returned for that identifier.
C7_OnlyDuplicateFetch ==
    /\ ~(last.op = "conc" /\ last.from = "SecretCache.get" /\ last.result.kind = "raise")
    /\ \A k \in DOMAIN cache :
          /\ DOMAIN cache[k] = {"value", "expires_at"}
          /\ cache[k].value \in SecretValuesOf(k)
          /\ cache[k].expires_at \in Nat

====
